---- MODULE Spec2Model ----
(***************************************************************************)
(* Model of src/src/lib.rs (pure-toplevel): the pass that walks a parsed   *)
(* module and anchors a #__PURE__ block comment at the start of top-level  *)
(* call expressions, and the host predicate create_plugin.                 *)
(*                                                                         *)
(* Text is modelled as a sequence of lexemes (a lexeme is a run of         *)
(* characters the code never looks inside: "$", one digit, one sign, a     *)
(* comment delimiter, a marker word, an identifier chunk).  An offset is   *)
(* the position of an expression's first token, so two expressions have    *)
(* the same span.lo exactly when they begin with the same token.           *)
(***************************************************************************)
EXTENDS Integers, Sequences, FiniteSets, TLC

VARIABLES source, module, comments, in_top_level, stack, pc, pass, output,
          node, result

vars == <<source, module, comments, in_top_level, stack, pc, pass, output,
          node, result>>

transformVars == <<source, module, comments, in_top_level, stack, pc, pass, output>>

(***************************************************************************)
(* Bounds of the model.                                                    *)
(***************************************************************************)
MaxPass == 2
MaxOffset == 8
MaxArgs == 2

Offsets == 0..MaxOffset

(***************************************************************************)
(* Helper Name Matcher: TSLIB_HELPERS and is_tslib_helper_name.            *)
(***************************************************************************)
TSLIB_HELPERS ==
    { <<"__createBinding">>, <<"__setModuleDefault">>,
      <<"__importStar">>, <<"__importDefault">> }

DigitChars == <<"0", "1", "2", "3", "4", "5", "6", "7", "8", "9">>

IsDigit(c) == \E i \in 1..10 : DigitChars[i] = c

DigitVal(c) == (CHOOSE i \in 1..10 : DigitChars[i] = c) - 1

I32Max == 2147483647

\* str::split('$'): the parts between the separators, empty parts kept.
RECURSIVE split(_)
split(s) ==
    IF \A i \in 1..Len(s) : s[i] # "$"
    THEN <<s>>
    ELSE LET i == CHOOSE j \in 1..Len(s) :
                      s[j] = "$" /\ \A k \in 1..(j - 1) : s[k] # "$"
         IN <<SubSeq(s, 1, i - 1)>> \o split(SubSeq(s, i + 1, Len(s)))

\* The digit loop of i32::from_str: acc * 10 + d (acc * 10 - d when the
\* text is negative) with checked arithmetic: any overflow is an error.
RECURSIVE digits_fit(_, _, _)
digits_fit(ds, acc, neg) ==
    IF ds = <<>> THEN TRUE
    ELSE IF ~IsDigit(Head(ds)) THEN FALSE
    ELSE LET d == DigitVal(Head(ds))
             q == I32Max \div 10
             r == I32Max % 10
         IN IF neg
            THEN IF acc < -q \/ (acc = -q /\ d > r + 1)
                 THEN FALSE
                 ELSE digits_fit(Tail(ds), acc * 10 - d, neg)
            ELSE IF acc > q \/ (acc = q /\ d > r)
                 THEN FALSE
                 ELSE digits_fit(Tail(ds), acc * 10 + d, neg)

\* part.parse::<i32>().is_ok()
parse_i32_is_ok(s) ==
    IF s = <<>> THEN FALSE
    ELSE IF Head(s) \in {"+", "-"}
         THEN Len(s) > 1 /\ digits_fit(Tail(s), 0, Head(s) = "-")
         ELSE digits_fit(s, 0, FALSE)

is_tslib_helper_name(name) ==
    LET name_parts == split(name)
    IN CASE Len(name_parts) = 1 -> name \in TSLIB_HELPERS
         [] Len(name_parts) = 2 ->
                parse_i32_is_ok(name_parts[2]) /\ name_parts[1] \in TSLIB_HELPERS
         [] OTHER -> FALSE

(***************************************************************************)
(* Comments.  In the source text a comment carries its delimiters; the     *)
(* lexer stores it without them (Comment.text) and the printer writes      *)
(* them back.                                                              *)
(***************************************************************************)
Comment(kind, text) == [kind |-> kind, text |-> text]

\* str::contains on lexeme sequences.
contains(text, needle) ==
    \E i \in 1..(Len(text) - Len(needle) + 1) :
        SubSeq(text, i, i + Len(needle) - 1) = needle

\* The lexer: one comment of the source text, delimiters stripped.
LexComment(raw) ==
    IF Head(raw) = "/*"
    THEN Comment("Block", SubSeq(raw, 2, Len(raw) - 1))
    ELSE Comment("Line", Tail(raw))

\* The printer: one comment of the table, delimiters written back.
EmitComment(c) ==
    IF c.kind = "Block"
    THEN <<"/*">> \o c.text \o <<"*/">>
    ELSE <<"//">> \o c.text

MapSeq(s, Op(_)) == [i \in 1..Len(s) |-> Op(s[i])]

LexTable(raw) == [o \in Offsets |-> MapSeq(raw[o], LexComment)]

EmitTable(tbl) == [o \in Offsets |-> MapSeq(tbl[o], EmitComment)]

PURE_TEXT == <<"#__PURE__">>

has_pure_comment(lo) ==
    \E i \in 1..Len(comments[lo]) :
        \/ contains(comments[lo][i].text, <<"/*", "#__PURE__", "*/">>)
        \/ contains(comments[lo][i].text, <<"@__PURE__">>)

\* Comments::add_leading of a Block comment "#__PURE__" at call.span.lo.
add_pure_comment(call) ==
    [comments EXCEPT ![call.lo] = Append(@, Comment("Block", PURE_TEXT))]

(***************************************************************************)
(* The tree.  Every node has the same fields: kind, id (a label of the     *)
(* Call and New nodes, 0 elsewhere), lo (span.lo), sym (an identifier's    *)
(* name), callee (zero or one node), args, kids (the statements of a       *)
(* body, the members of a class, the object of a member access).           *)
(*   Call, New           CallExpr, NewExpr                                 *)
(*   Ident, Member, Lit  Expr::Ident, Expr::Member, any other leaf         *)
(*   Arrow               ArrowExpr                                         *)
(*   Fn                  Function: declaration, expression, class method   *)
(*   Constructor         Constructor: a class constructor, which the tree  *)
(*                       keeps apart from Function                         *)
(*   Class               a class and its members                           *)
(*   Import              Callee::Import, the callee of import(...)         *)
(***************************************************************************)
Node(kind, id, lo, sym, callee, args, kids) ==
    [kind |-> kind, id |-> id, lo |-> lo, sym |-> sym,
     callee |-> callee, args |-> args, kids |-> kids]

Ident(sym) == Node("Ident", 0, 0, sym, <<>>, <<>>, <<>>)
Lit == Node("Lit", 0, 0, <<>>, <<>>, <<>>, <<>>)
Import == Node("Import", 0, 0, <<>>, <<>>, <<>>, <<>>)
Member(obj, prop) == Node("Member", 0, 0, prop, <<>>, <<>>, <<obj>>)
Call(id, lo, callee, args) == Node("Call", id, lo, <<>>, <<callee>>, args, <<>>)
New(id, lo, callee, args) == Node("New", id, lo, <<>>, <<callee>>, args, <<>>)
Arrow(body) == Node("Arrow", 0, 0, <<>>, <<>>, <<>>, body)
Fn(body) == Node("Fn", 0, 0, <<>>, <<>>, <<>>, body)
Constructor(body) == Node("Constructor", 0, 0, <<>>, <<>>, <<>>, body)
Class(members) == Node("Class", 0, 0, <<>>, <<>>, <<>>, members)

\* The order in which visit_mut_children_with reaches a node's children.
Children(n) == n.callee \o n.args \o n.kids

(***************************************************************************)
(* Identifier names of the inputs.                                         *)
(***************************************************************************)
Dollar(base, suffix) == base \o <<"$">> \o suffix

Nines(k) == [i \in 1..k |-> "9"]

HelperCallees ==
    { <<"__importStar">>, <<"__createBinding">>,
      <<"__setModuleDefault">>, <<"__importDefault">>,
      Dollar(<<"__importStar">>, <<"1">>),
      Dollar(<<"__importDefault">>, <<"4", "2">>),
      Dollar(<<"__importStar">>, <<"2", "1", "4", "7", "4", "8", "3", "6", "4", "7">>),
      Dollar(<<"__importStar">>, <<"2", "1", "4", "7", "4", "8", "3", "6", "4", "8">>),
      Dollar(<<"__importStar">>, Nines(10)),
      Dollar(<<"__importStar">>, <<"abc">>),
      Dollar(<<"__importStar">>, <<"1", "a">>),
      Dollar(<<"__importStar">>, <<>>),
      Dollar(Dollar(<<"__importStar">>, <<"1">>), <<"2">>),
      Dollar(<<"foo">>, <<"1">>) }

\* Names a host may pass to create_plugin: any string, a sign included.
SignedCallees ==
    { Dollar(<<"__importStar">>, <<"+", "1">>),
      Dollar(<<"__importStar">>, <<"-", "1">>),
      Dollar(<<"__importStar">>, <<"-", "2", "1", "4", "7", "4", "8", "3", "6", "4", "8">>),
      Dollar(<<"__importStar">>, <<"-", "2", "1", "4", "7", "4", "8", "3", "6", "4", "9">>),
      Dollar(<<"__importStar">>, <<"+">>) }

(***************************************************************************)
(* The modules given to transform.  Offsets count tokens from 0.           *)
(***************************************************************************)
Foo == Ident(<<"foo">>)

\* name();
CallOf(sym) == <<Call(1, 0, Ident(sym), <<>>)>>

Bodies ==
    { CallOf(sym) : sym \in HelperCallees } \cup
    { \* foo();
      <<Call(1, 0, Foo, <<>>)>>,
      \* foo()();
      <<Call(1, 0, Call(2, 0, Foo, <<>>), <<>>)>>,
      \* foo().bar();
      <<Call(1, 0, Member(Call(2, 0, Foo, <<>>), <<"bar">>), <<>>)>>,
      \* Object.create({});
      <<Call(1, 0, Member(Ident(<<"Object">>), <<"create">>), <<Lit>>)>>,
      \* __importStar(module);
      <<Call(1, 0, Ident(<<"__importStar">>), <<Ident(<<"module">>)>>)>>,
      \* __importStar(foo());
      <<Call(1, 0, Ident(<<"__importStar">>), <<Call(2, 2, Foo, <<>>)>>)>>,
      \* function test() { foo(); }
      <<Fn(<<Call(1, 5, Foo, <<>>)>>)>>,
      \* function test() { foo(); }  bar();
      <<Fn(<<Call(1, 5, Foo, <<>>)>>), Call(2, 8, Ident(<<"bar">>), <<>>)>>,
      \* class Test { method() { bar(); } }
      <<Class(<<Fn(<<Call(1, 6, Ident(<<"bar">>), <<>>)>>)>>)>>,
      \* class Test { constructor() { foo(); } }
      <<Class(<<Constructor(<<Call(1, 6, Foo, <<>>)>>)>>)>>,
      \* (function () { foo(); })();
      <<Call(1, 0, Fn(<<Call(2, 5, Foo, <<>>)>>), <<>>)>>,
      \* (() => foo())();
      <<Call(1, 0, Arrow(<<Call(2, 4, Foo, <<>>)>>), <<>>)>>,
      \* (x => x)(foo());
      <<Call(1, 0, Arrow(<<Ident(<<"x">>)>>), <<Call(2, 6, Foo, <<>>)>>)>>,
      \* foo(() => bar());
      <<Call(1, 0, Foo, <<Arrow(<<Call(2, 5, Ident(<<"bar">>), <<>>)>>)>>)>>,
      \* import("x");
      <<Call(1, 0, Import, <<Lit>>)>>,
      \* Math.abs(1);  import("x");
      <<Call(1, 0, Member(Ident(<<"Math">>), <<"abs">>), <<Lit>>), Call(2, 6, Import, <<Lit>>)>>,
      \* new Foo();
      <<New(1, 0, Ident(<<"Foo">>), <<>>)>>,
      \* new Foo(bar());
      <<New(1, 0, Ident(<<"Foo">>), <<Call(2, 3, Ident(<<"bar">>), <<>>)>>)>>,
      \* function f() { new Foo(); }
      <<Fn(<<New(1, 5, Ident(<<"Foo">>), <<>>)>>)>>,
      \* () => new Foo(bar());
      <<Arrow(<<New(1, 3, Ident(<<"Foo">>), <<Call(2, 6, Ident(<<"bar">>), <<>>)>>)>>)>> }

\* A comment written before the first token of the text, if any.
NoComments == [o \in Offsets |-> <<>>]

LeadingComments ==
    { <<>>,
      <<"/*", "#__PURE__", "*/">>,
      <<"/*", " ", "@__PURE__", " ", "*/">>,
      <<"//", " ", "/*", "#__PURE__", "*/">>,
      <<"/*", " ", "note", " ", "*/">> }

RawTable(c) == IF c = <<>> THEN NoComments ELSE [NoComments EXCEPT ![0] = <<c>>]

Sources == { [body |-> b, comments |-> RawTable(c)] : b \in Bodies, c \in LeadingComments }

\* parse_js: the tree, and the comment table the lexer fills.
parse_js(src) == [module |-> src.body, comments |-> LexTable(src.comments)]

\* generate_js: the text of the tree and its comment table.
generate_js(m, tbl) == [body |-> m, comments |-> EmitTable(tbl)]

(***************************************************************************)
(* PureFunctionVisitor: the classification of one call.                    *)
(***************************************************************************)
CalleeIsExpr(call) == call.callee[1].kind \notin {"Import", "Super"}

\* is_pure_candidate with the callee forms that are no expression
\* (import, super) falling into the default case.
is_pure_candidate_any_callee(call) ==
    IF ~in_top_level THEN FALSE
    ELSE LET expr == call.callee[1]
         IN CASE expr.kind = "Arrow" /\ call.args # <<>> -> FALSE
              [] expr.kind = "Ident" -> ~is_tslib_helper_name(expr.sym)
              [] OTHER -> TRUE

is_pure_candidate(call) ==
    IF ~in_top_level THEN FALSE
    ELSE IF ~CalleeIsExpr(call) THEN FALSE
    ELSE LET expr == call.callee[1]
         IN CASE expr.kind = "Arrow" /\ call.args # <<>> -> FALSE
              [] expr.kind = "Ident" -> ~is_tslib_helper_name(expr.sym)
              [] OTHER -> TRUE

\* No visit method of PureAnnotator calls it.
is_pure_new_expression(new_expr) == in_top_level

(***************************************************************************)
(* The traversal.  The stack holds what visit_mut_with has still to do:    *)
(* the nodes to visit, first on top, and where a function or arrow body    *)
(* ends, the flag value to put back.                                       *)
(***************************************************************************)
VisitFrame(n) == [op |-> "visit", node |-> n, old |-> FALSE]
RestoreFrame(old) == [op |-> "restore", node |-> Lit, old |-> old]

Visits(nodes) == [i \in 1..Len(nodes) |-> VisitFrame(nodes[i])]

EmptyText == [body |-> <<>>, comments |-> NoComments]

Visiting(kinds) ==
    /\ pc = "visit"
    /\ stack # <<>>
    /\ Head(stack).op = "visit"
    /\ Head(stack).node.kind \in kinds

\* transform, up to the start of module.visit_mut_with: parse_js and
\* PureFunctionVisitor::new.
Transform ==
    /\ pc = "start"
    /\ LET parsed == parse_js(source)
       IN /\ module' = parsed.module
          /\ comments' = parsed.comments
          /\ stack' = Visits(parsed.module)
    /\ in_top_level' = TRUE
    /\ pc' = "visit"
    /\ UNCHANGED <<source, pass, output, node, result>>

\* PureAnnotator::visit_mut_call_expr
VisitCallExpr ==
    /\ Visiting({"Call"})
    /\ LET call == Head(stack).node
       IN /\ comments' = IF is_pure_candidate(call) /\ ~has_pure_comment(call.lo)
                         THEN add_pure_comment(call)
                         ELSE comments
          /\ stack' = Visits(Children(call)) \o Tail(stack)
    /\ UNCHANGED <<source, module, in_top_level, pc, pass, output, node, result>>

\* PureAnnotator::visit_mut_function, up to the visit of the children.
VisitFunction ==
    /\ Visiting({"Fn"})
    /\ LET n == Head(stack).node
           old_top_level == in_top_level
       IN stack' = Visits(Children(n)) \o <<RestoreFrame(old_top_level)>> \o Tail(stack)
    /\ in_top_level' = FALSE
    /\ UNCHANGED <<source, module, comments, pc, pass, output, node, result>>

\* PureAnnotator::visit_mut_arrow_expr, up to the visit of the children.
VisitArrowExpr ==
    /\ Visiting({"Arrow"})
    /\ LET n == Head(stack).node
           old_top_level == in_top_level
       IN stack' = Visits(Children(n)) \o <<RestoreFrame(old_top_level)>> \o Tail(stack)
    /\ in_top_level' = FALSE
    /\ UNCHANGED <<source, module, comments, pc, pass, output, node, result>>

\* The end of visit_mut_function and of visit_mut_arrow_expr.
LeaveBody ==
    /\ pc = "visit"
    /\ stack # <<>>
    /\ Head(stack).op = "restore"
    /\ in_top_level' = Head(stack).old
    /\ stack' = Tail(stack)
    /\ UNCHANGED <<source, module, comments, pc, pass, output, node, result>>

\* Every node PureAnnotator has no method for: its children are visited.
VisitChildren ==
    /\ Visiting({"New", "Ident", "Member", "Lit", "Import", "Class", "Constructor"})
    /\ stack' = Visits(Children(Head(stack).node)) \o Tail(stack)
    /\ UNCHANGED <<source, module, comments, in_top_level, pc, pass, output, node, result>>

\* transform, after the traversal: generate_js.
Generate ==
    /\ pc = "visit"
    /\ stack = <<>>
    /\ output' = generate_js(module, comments)
    /\ pc' = "done"
    /\ UNCHANGED <<source, module, comments, in_top_level, stack, pass, node, result>>

\* The caller gives the text transform returned to transform again.
Retransform ==
    /\ pc = "done"
    /\ pass < MaxPass
    /\ source' = output
    /\ pass' = pass + 1
    /\ pc' = "start"
    /\ UNCHANGED <<module, comments, in_top_level, stack, output, node, result>>

NoNode == [type |-> "none"]

Init ==
    /\ source \in Sources
    /\ module = <<>>
    /\ comments = NoComments
    /\ in_top_level = TRUE
    /\ stack = <<>>
    /\ pc = "start"
    /\ pass = 1
    /\ output = EmptyText
    /\ node = NoNode
    /\ result = "none"

Next ==
    \/ Transform
    \/ VisitCallExpr
    \/ VisitFunction
    \/ VisitArrowExpr
    \/ LeaveBody
    \/ VisitChildren
    \/ Generate
    \/ Retransform

Spec == Init /\ [][Next]_vars

(***************************************************************************)
(* create_plugin.  A node descriptor is a host object: a function from     *)
(* the keys it has to their values; get_named_property fails on a key      *)
(* the object lacks.  An array is a sequence.                              *)
(***************************************************************************)
Has(obj, key) == key \in DOMAIN obj

\* create_plugin without the helper-name test.
create_plugin_no_helper_check(n) ==
    IF ~Has(n, "type") THEN "Err"
    ELSE CASE n.type = "CallExpression" ->
                 IF ~Has(n, "callee") THEN "Err"
                 ELSE IF ~Has(n.callee, "type") THEN "Err"
                 ELSE IF n.callee.type = "Identifier" /\ ~Has(n.callee, "name") THEN "Err"
                 ELSE IF ~Has(n, "arguments") THEN "Err"
                 ELSE IF Len(n.arguments) = 0 THEN "Ok(true)" ELSE "Ok(false)"
           [] n.type = "NewExpression" -> "Ok(true)"
           [] OTHER -> "Ok(false)"

\* create_plugin reading arguments before it looks at the callee's name.
create_plugin_arguments_first(n) ==
    IF ~Has(n, "type") THEN "Err"
    ELSE CASE n.type = "CallExpression" ->
                 IF ~Has(n, "callee") THEN "Err"
                 ELSE IF ~Has(n.callee, "type") THEN "Err"
                 ELSE IF ~Has(n, "arguments") THEN "Err"
                 ELSE IF n.callee.type = "Identifier" /\ ~Has(n.callee, "name") THEN "Err"
                 ELSE IF n.callee.type = "Identifier" /\ is_tslib_helper_name(n.callee.name)
                      THEN "Ok(false)"
                 ELSE IF Len(n.arguments) = 0 THEN "Ok(true)" ELSE "Ok(false)"
           [] n.type = "NewExpression" -> "Ok(true)"
           [] OTHER -> "Ok(false)"

create_plugin(n) ==
    IF ~Has(n, "type") THEN "Err"
    ELSE CASE n.type = "CallExpression" ->
                 IF ~Has(n, "callee") THEN "Err"
                 ELSE IF ~Has(n.callee, "type") THEN "Err"
                 ELSE IF n.callee.type = "Identifier" /\ ~Has(n.callee, "name") THEN "Err"
                 ELSE IF n.callee.type = "Identifier" /\ is_tslib_helper_name(n.callee.name)
                      THEN "Ok(false)"
                 ELSE IF ~Has(n, "arguments") THEN "Err"
                 ELSE IF Len(n.arguments) = 0 THEN "Ok(true)" ELSE "Ok(false)"
           [] n.type = "NewExpression" -> "Ok(true)"
           [] OTHER -> "Ok(false)"

PluginNames == HelperCallees \cup SignedCallees \cup { <<"foo">> }

CalleeObjects ==
    { [loc |-> 0], [type |-> "Identifier"], [type |-> "MemberExpression"],
      [type |-> "MemberExpression", name |-> <<"__importStar">>] } \cup
    { [type |-> "Identifier", name |-> nm] : nm \in PluginNames }

ArgumentArrays == { [i \in 1..k |-> 1] : k \in 0..MaxArgs }

WithKey(objs, key, values) ==
    objs \cup { obj @@ (key :> v) : obj \in objs, v \in values }

NodeObjects ==
    LET typed == { [loc |-> 0] } \cup
                 { [loc |-> 0, type |-> t] :
                       t \in {"CallExpression", "NewExpression", "Identifier"} }
    IN WithKey(WithKey(typed, "callee", CalleeObjects), "arguments", ArgumentArrays)

\* The host calls create_plugin(node).
CreatePlugin ==
    /\ pc = "idle"
    /\ result = "none"
    /\ result' = create_plugin(node)
    /\ UNCHANGED <<transformVars, node>>

PluginInit ==
    /\ source = EmptyText
    /\ module = <<>>
    /\ comments = NoComments
    /\ in_top_level = TRUE
    /\ stack = <<>>
    /\ pc = "idle"
    /\ pass = 0
    /\ output = EmptyText
    /\ node \in NodeObjects
    /\ result = "none"

PluginNext == CreatePlugin

PluginSpec == PluginInit /\ [][PluginNext]_vars

(***************************************************************************)
(* What the properties speak of.                                           *)
(***************************************************************************)
\* The bodies the language calls function bodies: those of functions,
\* methods, constructors and arrow functions.
FunctionBodyKinds == {"Fn", "Arrow", "Constructor"}

\* The Call and New expressions of a tree, each with whether it is
\* lexically enclosed by a function body.
RECURSIVE Sites(_, _)
Sites(n, enclosed) ==
    LET here == IF n.kind \in {"Call", "New"}
                THEN {[id |-> n.id, lo |-> n.lo, kind |-> n.kind,
                       enclosed |-> enclosed, node |-> n]}
                ELSE {}
        inner == enclosed \/ n.kind \in FunctionBodyKinds
    IN here \cup UNION { Sites(Children(n)[i], inner) : i \in DOMAIN Children(n) }

ModuleSites(body) == UNION { Sites(body[i], FALSE) : i \in DOMAIN body }

\* A comment downstream tools read as a pure annotation.
IsPureMarker(c) ==
    c.kind = "Block" /\ (contains(c.text, <<"#__PURE__">>) \/ contains(c.text, <<"@__PURE__">>))

MarkerCount(tbl, lo) == Cardinality({ i \in 1..Len(tbl[lo]) : IsPureMarker(tbl[lo][i]) })

\* The comment table the current pass started from.
Parsed == LexTable(source.comments)

\* How many comments the current pass has added at an offset.
Inserted(lo) == Len(comments[lo]) - Len(Parsed[lo])

InPass == pc \in {"visit", "done"}

IdentCallee(call) == CalleeIsExpr(call) /\ call.callee[1].kind = "Ident"

\* C1: a pass over a module whose eligible calls already carry a marker (the
\* output of an earlier pass, or the text /*#__PURE__*/ foo();) leaves the
\* number of pure markers at every offset as it found it.
C1_Idempotent ==
    (pc = "done" /\ (pass > 1 \/ source = [body |-> CallOf(<<"foo">>),
                                            comments |-> RawTable(<<"/*", "#__PURE__", "*/">>)]))
        => \A o \in Offsets : MarkerCount(comments, o) = MarkerCount(Parsed, o)

\* C2: after the pass every New expression at module top level has a pure
\* marker at its start offset, and the pass has added none at the start of a
\* New expression inside a function or arrow body.
C2_NewMarked ==
    pc = "done" =>
        \A s \in ModuleSites(source.body) :
            s.kind = "New" =>
                /\ ~s.enclosed => MarkerCount(comments, s.lo) >= 1
                /\ s.enclosed => Inserted(s.lo) = 0

\* C3: the pass adds no marker at the start offset of a call that is inside
\* a function body (function, method, constructor, accessor) or arrow body.
C3_NestedUnmarked ==
    pc = "done" =>
        \A s \in ModuleSites(source.body) :
            (s.kind = "Call" /\ s.enclosed) => Inserted(s.lo) = 0

\* C4: after the pass over a text without comments, exactly one pure marker
\* is anchored at the start of every top-level call whose callee is an
\* identifier the Helper Name Matcher does not match, also when an enclosing
\* top-level call starts at the same offset.
C4_ExactlyOne ==
    (pc = "done" /\ pass = 1 /\ Parsed = NoComments) =>
        \A s \in ModuleSites(source.body) :
            (s.kind = "Call" /\ ~s.enclosed /\ IdentCallee(s.node)
                 /\ ~is_tslib_helper_name(s.node.callee[1].sym))
                => MarkerCount(comments, s.lo) = 1

\* A canonical helper name followed by "$" and a suffix.
HelperDollar(sym) == Len(sym) >= 2 /\ <<sym[1]>> \in TSLIB_HELPERS /\ sym[2] = "$"
Suffix(sym) == SubSeq(sym, 3, Len(sym))
DigitRun(s) == s # <<>> /\ \A i \in 1..Len(s) : IsDigit(s[i])

\* C5: a top-level call name(); gets no marker when name is a canonical
\* helper name, or one followed by "$" and a non-empty run of digits of any
\* length; it gets a marker when name is a helper name followed by "$" and
\* a suffix that is not a run of digits.
C5_HelperExemption ==
    (pc = "done" /\ pass = 1 /\ Parsed = NoComments) =>
        \A sym \in HelperCallees :
            source.body = CallOf(sym) =>
                /\ (sym \in TSLIB_HELPERS \/ (HelperDollar(sym) /\ DigitRun(Suffix(sym))))
                       => MarkerCount(comments, 0) = 0
                /\ (HelperDollar(sym) /\ ~DigitRun(Suffix(sym)))
                       => MarkerCount(comments, 0) = 1

\* C8: in every state of one traversal the pass has inserted at most one
\* marker at any offset, also when several eligible calls start there.
C8_AtMostOneInserted ==
    InPass => \A o \in Offsets : Inserted(o) <= 1

\* C10: at every visit of a call the top-level flag is true exactly when no
\* function or arrow-function body encloses the call.
C10_FlagIsLexical ==
    Visiting({"Call"}) =>
        \A s \in ModuleSites(source.body) :
            s.id = Head(stack).node.id => (in_top_level <=> ~s.enclosed)

(***************************************************************************)
(* create_plugin.                                                          *)
(***************************************************************************)
CallLike(n) == Has(n, "type") /\ n.type \in {"CallExpression", "NewExpression"}

CalleeComplete(n) ==
    /\ Has(n, "callee")
    /\ Has(n.callee, "type")
    /\ n.callee.type = "Identifier" => Has(n.callee, "name")

Complete(n) ==
    /\ Has(n, "type")
    /\ CallLike(n) => (CalleeComplete(n) /\ Has(n, "arguments"))

HelperCallee(n) ==
    CalleeComplete(n) /\ n.callee.type = "Identifier" /\ is_tslib_helper_name(n.callee.name)

\* C6: on a complete node descriptor create_plugin answers false for a
\* CallExpression whose callee is a helper identifier, otherwise for a
\* CallExpression true exactly when the argument list is empty, true for a
\* NewExpression and false for any other type; the call changes neither the
\* node nor any other state.
C6_PluginPredicate ==
    [][result' # result =>
          /\ node' = node
          /\ UNCHANGED transformVars
          /\ Complete(node) =>
               result' = CASE node.type = "CallExpression" /\ HelperCallee(node) -> "Ok(false)"
                           [] node.type = "CallExpression" /\ ~HelperCallee(node) ->
                                  IF node.arguments = <<>> THEN "Ok(true)" ELSE "Ok(false)"
                           [] node.type = "NewExpression" -> "Ok(true)"
                           [] OTHER -> "Ok(false)"]_vars

\* C6 witness: Scenario F, a call of bar with one argument answered false.
C6_Witness ==
    /\ result = "Ok(false)"
    /\ Complete(node)
    /\ node.type = "CallExpression"
    /\ ~HelperCallee(node)
    /\ node.callee.type = "Identifier"
    /\ Len(node.arguments) = 1

\* C7 as stated: create_plugin fails whenever type is absent and, for a
\* CallExpression or a NewExpression, whenever callee or arguments is absent.
C7_Original ==
    (result # "none"
       /\ (~Has(node, "type")
             \/ (CallLike(node) /\ (~Has(node, "callee") \/ ~Has(node, "arguments")))))
        => result = "Err"

\* C7 amended: create_plugin fails exactly when type is absent, or the node
\* is a CallExpression and callee, the callee's type or an Identifier
\* callee's name is absent, or arguments is absent and the callee is no
\* helper identifier.  A CallExpression with a helper identifier as callee
\* is answered false without its arguments, a NewExpression true without
\* callee or arguments.
C7_Amended ==
    result # "none" =>
        /\ result = "Err" <=>
              \/ ~Has(node, "type")
              \/ /\ node.type = "CallExpression"
                 /\ \/ ~CalleeComplete(node)
                    \/ ~HelperCallee(node) /\ ~Has(node, "arguments")
        /\ (Has(node, "type") /\ node.type = "NewExpression") => result = "Ok(true)"
        /\ (Has(node, "type") /\ node.type = "CallExpression" /\ HelperCallee(node))
               => result = "Ok(false)"

\* C7 witness: the NewExpression of the code's own test, which has no
\* arguments, answered true.
C7_Witness ==
    /\ result = "Ok(true)"
    /\ Has(node, "type")
    /\ node.type = "NewExpression"
    /\ Has(node, "callee")
    /\ ~Has(node, "arguments")

(***************************************************************************)
(* The classification of a call visited at top level.                      *)
(***************************************************************************)
ArrowWithArgs(call) ==
    CalleeIsExpr(call) /\ call.callee[1].kind = "Arrow" /\ call.args # <<>>

HelperIdent(call) == IdentCallee(call) /\ is_tslib_helper_name(call.callee[1].sym)

\* A marker the pass inserted, or a comment it takes for one.
Recognised(cs) ==
    \E i \in 1..Len(cs) :
        \/ cs[i] = Comment("Block", PURE_TEXT)
        \/ contains(cs[i].text, <<"@__PURE__">>)
        \/ contains(cs[i].text, <<"/*", "#__PURE__", "*/">>)

\* The visit of a call at top level leaves the table alone when the call is
\* ineligible, and leaves a marker at its start when it is eligible.
Classified(call, ineligible) ==
    /\ ineligible => comments' = comments
    /\ ~ineligible => Recognised(comments'[call.lo])

\* C9 as stated: a call visited at top level is ineligible only when its
\* callee is an arrow function and it has arguments, or its callee is a
\* helper identifier; every other call gets a marker.
C9_Original ==
    [][(Visiting({"Call"}) /\ in_top_level) =>
          LET call == Head(stack).node
          IN Classified(call, ArrowWithArgs(call) \/ HelperIdent(call))]_vars

\* C9 amended: a call visited at top level is ineligible exactly when its
\* callee is an arrow function and it has arguments, or its callee is a
\* helper identifier, or its callee is no expression (import, super); every
\* other call is eligible, and after its visit the marker the pass inserted,
\* or a comment the pass takes for one, is anchored at its start.
C9_Amended ==
    [][(Visiting({"Call"}) /\ in_top_level) =>
          LET call == Head(stack).node
          IN Classified(call, ArrowWithArgs(call) \/ HelperIdent(call) \/ ~CalleeIsExpr(call))]_vars

\* C9 witness: a pass that marked a call of a member and left a dynamic
\* import of the same module unmarked.
C9_Witness ==
    /\ pc = "done"
    /\ pass = 1
    /\ Parsed = NoComments
    /\ \E s \in ModuleSites(source.body) :
          /\ s.kind = "Call" /\ ~s.enclosed
          /\ s.node.callee[1].kind = "Member"
          /\ Inserted(s.lo) = 1
    /\ \E s \in ModuleSites(source.body) :
          /\ s.kind = "Call" /\ ~s.enclosed
          /\ ~CalleeIsExpr(s.node)
          /\ Inserted(s.lo) = 0

====
